---- MODULE Spec2Model ----
(***************************************************************************)
(* Model of coupling/sowfa.py: class InternalCoupling, which binds a       *)
(* time-indexed, height-resolved dataset (a pandas DataFrame) and writes   *)
(* it to SOWFA input files with write_BCs, write_ICs and write_timeheight. *)
(*                                                                         *)
(* A dataset is a sequence of rows; a row is a function from column names  *)
(* to integers.  "time" is the row label (the DataFrame index, in          *)
(* seconds), "height" and the data field "u" are columns.  A missing value *)
(* (NaN) and an argument left at None are integers outside the data range. *)
(***************************************************************************)
EXTENDS Integers, Sequences, FiniteSets, TLC

\* ---------------------------------------------------------------- bounds
MaxRows == 2        \* rows of the caller's dataset
MaxCalls == 1       \* export calls made on one writer

\* ------------------------------------------------------- values and names
NaN == -99          \* a missing value
NoDate == -1        \* dateref / datefrom / dateto left at None
None == "None"      \* a field-name argument left at None

Times == {0, 1}         \* time labels of the dataset
Heights == {0, 1}       \* height values of the dataset
Vals == {NaN, 1, 2}     \* values of the field u
\* dateref argument: none, an instant inside the data, and one so long before
\* it that the seconds since then need seven digits
DateRefs == {NoDate, 1, -1234567}
DateArgs == {NoDate, 0, 1}  \* datefrom / dateto arguments
Facts == {1, -1}        \* fact argument of write_BCs

\* the columns of the caller's DataFrame (its index is "time")
DataColumns == {"height", "u"}

\* ------------------------------------------------------ sequence helpers
Range(s) == {s[i] : i \in 1..Len(s)}

\* pandas Series.unique(): the distinct values in order of first appearance
RECURSIVE Unique(_)
Unique(s) ==
  IF s = <<>> THEN <<>>
  ELSE LET r == Unique(SubSeq(s, 1, Len(s) - 1))
           x == s[Len(s)]
       IN  IF x \in Range(r) THEN r ELSE Append(r, x)

\* the elements of a finite set of integers in ascending order
RECURSIVE SortedSeq(_)
SortedSeq(S) ==
  IF S = {} THEN <<>>
  ELSE LET m == CHOOSE x \in S : \A y \in S : x <= y
       IN  <<m>> \o SortedSeq(S \ {m})

\* the column c of a DataFrame as a sequence of values
Column(rows, c) == [i \in 1..Len(rows) |-> rows[i][c]]

\* the columns of a DataFrame (all rows share them)
Columns(rows) == DOMAIN rows[1] \ {"time"}

\* df.loc[:, c] = v : the rows with the column c added or overwritten
SetColumn(rows, c, v) ==
  [i \in 1..Len(rows) |->
     [k \in DOMAIN rows[i] \cup {c} |-> IF k = c THEN v ELSE rows[i][k]]]

\* ------------------------------------------------------------- datasets
Row(t, h, u) == [time |-> t, height |-> h, u |-> u]
RowSet == {Row(t, h, u) : t \in Times, h \in Heights, u \in Vals}

\* the dataset is keyed by (time, height): no key occurs twice
Keyed(rows) ==
  \A i, j \in 1..Len(rows) :
     (rows[i].time = rows[j].time /\ rows[i].height = rows[j].height) => i = j

Datasets ==
  {d \in UNION {[1..n -> RowSet] : n \in 1..MaxRows} : Keyed(d)}

\* -------------------------------------------------------- number formats
GDigits == 6        \* "%g": six significant digits
G12Digits == 12     \* "%.12g": twelve significant digits

Abs(x) == IF x < 0 THEN -x ELSE x

RECURSIVE NumDigits(_)
NumDigits(n) == IF n < 10 THEN 1 ELSE 1 + NumDigits(n \div 10)

RECURSIVE Pow10(_)
Pow10(k) == IF k = 0 THEN 1 ELSE 10 * Pow10(k - 1)

\* the number a "%.<digits>g" conversion prints for the number x: x rounded
\* to that many significant digits
RoundSig(x, digits) ==
  IF NumDigits(Abs(x)) <= digits THEN x
  ELSE LET p == Pow10(NumDigits(Abs(x)) - digits)
           q == ((Abs(x) + (p \div 2)) \div p) * p
       IN  IF x < 0 THEN -q ELSE q

FmtG(x) == RoundSig(x, GDigits)
Fmt12G(x) == RoundSig(x, G12Digits)

\* a line of an output file: literal text, or a row of formatted numbers
TextLine(t) == [kind |-> "text", text |-> t, nums |-> <<>>]
RowLine(ns) == [kind |-> "row", text |-> "", nums |-> ns]

\* the output file dpath/fname: absent, or a sequence of lines
NoFile == [exists |-> FALSE, lines |-> <<>>]
FileOf(ls) == [exists |-> TRUE, lines |-> ls]
OldFile == FileOf(<<TextLine("old")>>)

\* ----------------------------------------------------------- the writer
VARIABLES
  pc,         \* "new", "ready" (constructed) or "failed" (__init__ raised)
  df,         \* self.df, the bound copy
  datefrom,   \* self.datefrom
  file,       \* the content of dpath/fname
  call,       \* the last call and its arguments
  err,        \* how the last call ended: "ok" or the error raised
  ncalls      \* export calls made so far

vars == <<pc, df, datefrom, file, call, err, ncalls>>

NoCall ==
  [op |-> "none", df |-> <<>>,
   dateref |-> NoDate, datefrom |-> NoDate, dateto |-> NoDate,
   fieldname |-> None, fact |-> 1,
   xmom |-> None, ymom |-> None, zmom |-> None, temp |-> None]

\* no writer yet; the output directory may hold a file of an earlier run
Init ==
  /\ pc = "new"
  /\ df = <<>>
  /\ datefrom = NoDate
  /\ file \in {NoFile, OldFile}
  /\ call = NoCall
  /\ err = "none"
  /\ ncalls = 0

\* ---------------------------------------------------------------- __init__
\* faulty variant: datefrom is recorded as given, None included
DefaultFromUnset(rows, a) == a
\* datefrom / dateto default to the first / last row label of df
DefaultFrom(rows, a) == IF a = NoDate THEN rows[1].time ELSE a
DefaultTo(rows, b) == IF b = NoDate THEN rows[Len(rows)].time ELSE b

\* faulty variant: the window without its end points
WindowOpen(rows, from, to) ==
  SelectSeq(rows, LAMBDA r : r.time > from /\ r.time < to)
\* df.loc[(df.index>=datefrom) & (df.index<=dateto)]
Window(rows, from, to) ==
  SelectSeq(rows, LAMBDA r : r.time >= from /\ r.time <= to)

\* seconds since dateref, or the total seconds of the timedelta label
TIndex(t, dateref) == IF dateref # NoDate THEN t - dateref ELSE t

AddTIndex(rows, dateref) ==
  [i \in 1..Len(rows) |->
     [k \in DOMAIN rows[i] \cup {"t_index"} |->
        IF k = "t_index" THEN TIndex(rows[i].time, dateref) ELSE rows[i][k]]]

Construct(D, dateref, a, b) ==
  /\ pc = "new"
  /\ LET from == DefaultFrom(D, a)
         to == DefaultTo(D, b)
         bound == Window(D, from, to)
     IN  IF Cardinality(Range(Column(bound, "time"))) > 0
         THEN /\ pc' = "ready"
              /\ df' = AddTIndex(bound, dateref)
              /\ datefrom' = from
              /\ err' = "ok"
         ELSE /\ pc' = "failed"
              /\ df' = bound
              /\ datefrom' = datefrom
              /\ err' = "EmptyWindow"
  /\ call' = [NoCall EXCEPT !.op = "__init__", !.df = D, !.dateref = dateref,
                            !.datefrom = a, !.dateto = b]
  /\ UNCHANGED <<file, ncalls>>

\* faulty variant: the file is opened for writing before the checks are made
FileOpenedFirst(old, res) == IF res.err = "ok" THEN FileOf(res.lines) ELSE FileOf(<<>>)
\* an export call that raised leaves the file alone; one that returned has
\* opened it for writing and written all its lines
FileAfter(old, res) == IF res.err = "ok" THEN FileOf(res.lines) ELSE old

HasNaN(vals) == \E i \in 1..Len(vals) : vals[i] = NaN

\* fact * value in floating point: NaN stays NaN
Scale(fact, v) == IF v = NaN THEN NaN ELSE fact * v

\* --------------------------------------------------------------- write_BCs
\* faulty variant: one line per distinct time, in ascending time order
BCLinesSorted(rows, fieldname, fact) ==
  LET ts == SortedSeq(Range(Column(rows, "t_index")))
  IN  [i \in 1..Len(ts) |->
         RowLine(<<FmtG(ts[i]),
                   Fmt12G(Scale(fact, (CHOOSE r \in Range(rows) : r.t_index = ts[i])[fieldname]))>>)]
BCLines(rows, fieldname, fact) ==
  LET ts == Column(rows, "t_index")
      fieldvalues == [i \in 1..Len(rows) |-> Scale(fact, rows[i][fieldname])]
  IN  [i \in 1..Len(rows) |-> RowLine(<<FmtG(ts[i]), Fmt12G(fieldvalues[i])>>)]

BCs(rows, fieldname, fact) ==
  IF fieldname \notin Columns(rows)
  THEN [err |-> "MissingField", lines |-> <<>>]
  ELSE IF HasNaN(Column(rows, fieldname))
  THEN [err |-> "IncompleteData", lines |-> <<>>]
  ELSE [err |-> "ok", lines |-> BCLines(rows, fieldname, fact)]

WriteBCs(fieldname, fact) ==
  /\ pc = "ready"
  /\ ncalls < MaxCalls
  /\ LET res == BCs(df, fieldname, fact)
     IN  /\ err' = res.err
         /\ file' = FileAfter(file, res)
  /\ call' = [NoCall EXCEPT !.op = "write_BCs", !.fieldname = fieldname, !.fact = fact]
  /\ ncalls' = ncalls + 1
  /\ UNCHANGED <<pc, df, datefrom>>

\* ------------------------------------------------------- zero substitution
\* faulty variant: the zero column replaces a column the frame already has
RECURSIVE ZeroFillAll(_, _)
ZeroFillAll(rows, names) ==
  IF names = <<>> THEN rows
  ELSE IF names[1] # None
       THEN ZeroFillAll(SetColumn(rows, names[1], 0), SubSeq(names, 2, Len(names)))
       ELSE ZeroFillAll(rows, SubSeq(names, 2, Len(names)))
\* "set missing fields to zero": every named field that is no column of the
\* frame becomes a column of zeros
RECURSIVE ZeroFill(_, _)
ZeroFill(rows, names) ==
  IF names = <<>> THEN rows
  ELSE LET field == names[1]
           rest == SubSeq(names, 2, Len(names))
       IN  IF field # None /\ field \notin Columns(rows)
           THEN ZeroFill(SetColumn(rows, field, 0), rest)
           ELSE ZeroFill(rows, rest)

\* --------------------------------------------------------------- write_ICs
\* self.df.loc[self.datefrom]: the rows labelled datefrom
Snapshot(rows, from) == SelectSeq(rows, LAMBDA r : r.time = from)

ICLines(snap, xmom, ymom, temp) ==
  LET zs == Column(snap, "height")
  IN  [i \in 1..Len(snap) |->
         RowLine(<<FmtG(zs[i]), Fmt12G(snap[i][xmom]),
                   Fmt12G(snap[i][ymom]), Fmt12G(snap[i][temp])>>)]

\* .loc with a label no row has raises KeyError; with a label exactly one row
\* has it returns that row as a Series, which has no .columns; otherwise it
\* returns the DataFrame of the matching rows
ICs(rows, from, xmom, ymom, temp) ==
  LET loc == Snapshot(rows, from)
      fieldNames == <<xmom, ymom, temp>>
      snap == ZeroFill(loc, fieldNames)
  IN  IF Len(loc) = 0 THEN [err |-> "KeyError", lines |-> <<>>]
      ELSE IF Len(loc) = 1 THEN [err |-> "AttributeError", lines |-> <<>>]
      ELSE IF \E i \in 1..3 : HasNaN(Column(snap, fieldNames[i]))
      THEN [err |-> "IncompleteData", lines |-> <<>>]
      ELSE [err |-> "ok", lines |-> ICLines(snap, xmom, ymom, temp)]

WriteICs(xmom, ymom, temp) ==
  /\ pc = "ready"
  /\ ncalls < MaxCalls
  /\ LET res == ICs(df, datefrom, xmom, ymom, temp)
     IN  /\ err' = res.err
         /\ file' = FileAfter(file, res)
  /\ call' = [NoCall EXCEPT !.op = "write_ICs", !.xmom = xmom, !.ymom = ymom, !.temp = temp]
  /\ ncalls' = ncalls + 1
  /\ UNCHANGED <<pc, df, datefrom>>

\* --------------------------------------------------------- write_timeheight
\* self.df.pivot(columns='height', values=fieldNames): one row per distinct
\* row label and one column per distinct height, both in ascending order; a
\* (label, height) pair no row has gives a NaN cell
PivotIndex(rows) == SortedSeq(Range(Column(rows, "time")))
PivotColumns(rows) == SortedSeq(Range(Column(rows, "height")))

PivotCell(rows, field, t, h) ==
  IF \E i \in 1..Len(rows) : rows[i].time = t /\ rows[i].height = h
  THEN rows[CHOOSE i \in 1..Len(rows) : rows[i].time = t /\ rows[i].height = h][field]
  ELSE NaN

Pivot(rows, field) ==
  LET index == PivotIndex(rows)
      columns == PivotColumns(rows)
  IN  [i \in 1..Len(index) |->
         [k \in 1..Len(columns) |-> PivotCell(rows, field, index[i], columns[k])]]

PivotHasNaN(table) == \E i \in 1..Len(table) : HasNaN(table[i])

\* np.savetxt(fid, zs, fmt='    %g', header='(', footer=');\n', comments='')
HeightBlock(name, zs) ==
  <<TextLine(name), TextLine("(")>>
  \o [k \in 1..Len(zs) |-> RowLine(<<FmtG(zs[k])>>)]
  \o <<TextLine(");"), TextLine("")>>

\* np.savetxt(fid, concatenate((ts, table), axis=1), fmt=..., header='(',
\*            footer=');\n', comments='')
TableBlock(name, ts, table) ==
  <<TextLine(name), TextLine("(")>>
  \o [i \in 1..Len(table) |->
        RowLine(<<FmtG(ts[i])>> \o [k \in 1..Len(table[i]) |-> Fmt12G(table[i][k])])]
  \o <<TextLine(");"), TextLine("")>>

THLines(rows, zs, ts, write_mom, xmom, ymom, zmom, temp) ==
  (IF write_mom
   THEN HeightBlock("sourceHeightsMomentum", zs)
        \o TableBlock("sourceTableMomentumX", ts, Pivot(rows, xmom))
        \o TableBlock("sourceTableMomentumY", ts, Pivot(rows, ymom))
        \o TableBlock("sourceTableMomentumZ", ts, Pivot(rows, zmom))
   ELSE <<>>)
  \o
  (IF temp # None
   THEN HeightBlock("sourceHeightsTemperature", zs)
        \o TableBlock("sourceTableTemperature", ts, Pivot(rows, temp))
   ELSE <<>>)

\* faulty variant: the assertion is made without the "if any" around it
MomCheckAll(have_xyz_mom) ==
  IF ~(\A i \in 1..3 : have_xyz_mom[i]) THEN "IncompleteMomentumSpec" ELSE "ok"
\* the momentum check: "ok", or the failure of the assertion that all
\* components are given when any is
MomCheck(have_xyz_mom) ==
  IF (\E i \in 1..3 : have_xyz_mom[i]) /\ ~(\A i \in 1..3 : have_xyz_mom[i])
  THEN "IncompleteMomentumSpec"
  ELSE "ok"

\* the result of the call and self.df as the call leaves it; the zero
\* columns go into self.df itself, before the pivot and its check.  With no
\* field given the pivot is over an empty list of values and the file is
\* written empty.
TimeHeight(rows, xmom, ymom, zmom, temp) ==
  LET have_xyz_mom == <<xmom # None, ymom # None, zmom # None>>
      write_mom == \E i \in 1..3 : have_xyz_mom[i]
      zs == Unique(Column(rows, "height"))
      ts == Unique(Column(rows, "t_index"))
      filled == ZeroFill(rows, <<xmom, ymom, zmom, temp>>)
      fieldNames == SelectSeq(<<xmom, ymom, zmom, temp>>, LAMBDA name : name # None)
  IN  IF MomCheck(have_xyz_mom) # "ok"
      THEN [err |-> MomCheck(have_xyz_mom), lines |-> <<>>, df |-> rows]
      ELSE IF ~Keyed(filled)
      THEN [err |-> "ValueError", lines |-> <<>>, df |-> filled]
      ELSE IF \E n \in 1..Len(fieldNames) : PivotHasNaN(Pivot(filled, fieldNames[n]))
      THEN [err |-> "IncompleteData", lines |-> <<>>, df |-> filled]
      ELSE [err |-> "ok", df |-> filled,
            lines |-> THLines(filled, zs, ts, write_mom, xmom, ymom, zmom, temp)]

WriteTimeHeight(xmom, ymom, zmom, temp) ==
  /\ pc = "ready"
  /\ ncalls < MaxCalls
  /\ LET res == TimeHeight(df, xmom, ymom, zmom, temp)
     IN  /\ err' = res.err
         /\ df' = res.df
         /\ file' = FileAfter(file, res)
  /\ call' = [NoCall EXCEPT !.op = "write_timeheight",
                            !.xmom = xmom, !.ymom = ymom, !.zmom = zmom, !.temp = temp]
  /\ ncalls' = ncalls + 1
  /\ UNCHANGED <<pc, datefrom>>

\* ------------------------------------------------------------ arguments
\* "u" is a column of the dataset; "v", "w" and "theta" are not.  The field
\* names given to one write_timeheight call are distinct.
BCFields == {"u", "v"}
ICXMoms == {"u", "v"}
ICYMoms == {"v"}
ICTemps == {"theta"}
XMoms == {None, "u"}
YMoms == {None, "v"}
ZMoms == {None, "w"}
Temps == {None, "theta"}

\* the caller builds a writer on some dataset
NewWriter ==
  /\ pc = "new"
  /\ \E D \in Datasets, dateref \in DateRefs, a \in DateArgs, b \in DateArgs :
        Construct(D, dateref, a, b)

Next ==
  \/ NewWriter
  \/ \E fieldname \in BCFields, fact \in Facts : WriteBCs(fieldname, fact)
  \/ \E xmom \in ICXMoms, ymom \in ICYMoms, temp \in ICTemps : WriteICs(xmom, ymom, temp)
  \/ \E xmom \in XMoms, ymom \in YMoms, zmom \in ZMoms, temp \in Temps :
        WriteTimeHeight(xmom, ymom, zmom, temp)

Spec == Init /\ [][Next]_vars

\* ======================================================================
\* Reading the state and the written file back
\* ======================================================================
Exports == {"write_BCs", "write_ICs", "write_timeheight"}

\* the bounds of the window __init__ was asked for
AskedFrom == IF call.datefrom = NoDate THEN call.df[1].time ELSE call.datefrom
AskedTo == IF call.dateto = NoDate THEN call.df[Len(call.df)].time ELSE call.dateto
InWindow == {i \in 1..Len(call.df) : AskedFrom <= call.df[i].time /\ call.df[i].time <= AskedTo}

\* a bound row without the columns added after the copy was taken
Original(r) == [k \in DataColumns \cup {"time"} |-> r[k]]

\* the momentum components given to write_timeheight
GivenMom == {c \in {call.xmom, call.ymom, call.zmom} : c # None}
GivenFields == GivenMom \cup ({call.temp} \ {None})

TimesOf(rows) == Range(Column(rows, "time"))
HeightsOf(rows) == Range(Column(rows, "height"))

\* every (time, height) pair of the frame has a row
FullGrid(rows) ==
  \A t \in TimesOf(rows), h \in HeightsOf(rows) :
     \E i \in 1..Len(rows) : rows[i].time = t /\ rows[i].height = h

\* no value of a data column is missing
NoNaN(rows) == \A i \in 1..Len(rows) : \A c \in DataColumns : rows[i][c] # NaN

\* the number rows between the "(" that follows the line `name` and the
\* next text line
BlockRows(lines, name) ==
  LET start == CHOOSE i \in 1..Len(lines) : lines[i] = TextLine(name)
      stop == CHOOSE j \in (start + 2)..Len(lines) :
                 /\ lines[j].kind = "text"
                 /\ \A m \in (start + 2)..(j - 1) : lines[m].kind = "row"
  IN  SubSeq(lines, start + 2, stop - 1)

Ascending(ns) == \A i, j \in 1..Len(ns) : i < j => ns[i] < ns[j]
NonDecreasing(ns) == \A i, j \in 1..Len(ns) : i < j => ns[i] <= ns[j]

\* the table blocks of the file with the field each one holds
Tables ==
  (IF call.xmom # None
   THEN {<<"sourceTableMomentumX", "sourceHeightsMomentum", call.xmom>>,
         <<"sourceTableMomentumY", "sourceHeightsMomentum", call.ymom>>,
         <<"sourceTableMomentumZ", "sourceHeightsMomentum", call.zmom>>}
   ELSE {})
  \cup
  (IF call.temp # None
   THEN {<<"sourceTableTemperature", "sourceHeightsTemperature", call.temp>>}
   ELSE {})

\* ======================================================================
\* Claims
\* ======================================================================

C2_MomentumAllOrNothing ==
  call.op = "write_timeheight" =>
    /\ Cardinality(GivenMom) \in {1, 2} => err = "IncompleteMomentumSpec"
    /\ (Cardinality(GivenMom) \in {0, 3} /\ FullGrid(df) /\ NoNaN(df)) => err = "ok"

\* all three components and temp on a complete two-row dataset
C2_Witness ==
  /\ call.op = "write_timeheight" /\ err = "ok"
  /\ Cardinality(GivenMom) = 3 /\ call.temp # None
  /\ Len(df) = 2

\* C3: an export whose touched field has a missing value (or a missing
\* (time, height) cell) in its row set fails with the incomplete-data error.
\* (For write_timeheight the momentum specification is taken to be valid.)
C3_CompletenessEnforced ==
  /\ (call.op = "write_BCs" /\ call.fieldname \in Columns(df)
        /\ HasNaN(Column(df, call.fieldname)))
       => err = "IncompleteData"
  /\ (call.op = "write_ICs"
        /\ \E f \in {call.xmom, call.ymom, call.temp} \cap DataColumns :
              HasNaN(Column(Snapshot(df, datefrom), f)))
       => err = "IncompleteData"
  /\ (call.op = "write_timeheight" /\ Cardinality(GivenMom) \in {0, 3}
        /\ GivenFields # {}
        /\ (~FullGrid(df) \/ \E f \in GivenFields \cap DataColumns : HasNaN(Column(df, f))))
       => err = "IncompleteData"

\* C4: an export call that raises leaves the file as it was; a call that
\* returns has written the file.
C4_ValidationBeforeOpen ==
  [][(call'.op \in Exports /\ ncalls' = ncalls + 1) =>
        /\ err' # "ok" => file' = file
        /\ err' = "ok" => file'.exists]_vars

\* a call that failed a precondition, with the earlier file still in place
C4_Witness ==
  /\ call.op \in Exports
  /\ err \in {"MissingField", "IncompleteData", "IncompleteMomentumSpec"}
  /\ file = OldFile

\* C5: a successful write_timeheight with all three momentum components
\* writes H height lines in ascending order, and T rows of 1 + H columns in
\* each momentum table.
C5_MomentumShape ==
  (call.op = "write_timeheight" /\ err = "ok" /\ Cardinality(GivenMom) = 3) =>
    LET hs == BlockRows(file.lines, "sourceHeightsMomentum")
    IN  /\ Len(hs) = Cardinality(HeightsOf(df))
        /\ Ascending([k \in 1..Len(hs) |-> hs[k].nums[1]])
        /\ \A name \in {"sourceTableMomentumX", "sourceTableMomentumY", "sourceTableMomentumZ"} :
              LET rs == BlockRows(file.lines, name)
              IN  /\ Len(rs) = Cardinality(TimesOf(df))
                  /\ \A i \in 1..Len(rs) : Len(rs[i].nums) = 1 + Cardinality(HeightsOf(df))

\* C6 as stated: write_BCs writes one line per bound row, in ascending time
\* order, each holding the row's t_index and fact * field[row] (as "%g" and
\* "%.12g" print them), and no other line.
C6_LinesInTimeOrder ==
  (call.op = "write_BCs" /\ err = "ok") =>
    /\ Len(file.lines) = Len(df)
    /\ \A i \in 1..Len(file.lines) : file.lines[i].kind = "row"
    /\ NonDecreasing([i \in 1..Len(file.lines) |-> file.lines[i].nums[1]])
    /\ \A i \in 1..Len(df) :
          \E j \in 1..Len(file.lines) :
             file.lines[j].nums =
               <<FmtG(df[i].t_index), Fmt12G(call.fact * df[i][call.fieldname])>>

\* C6 amended: write_BCs writes one line per bound row, in the order of the
\* bound rows, line i holding row i's t_index as "%g" prints it and
\* fact * field[row i] as "%.12g" prints it, and no other line.
C6_LinesInRowOrder ==
  (call.op = "write_BCs" /\ err = "ok") =>
    /\ Len(file.lines) = Len(df)
    /\ \A i \in 1..Len(df) :
          /\ file.lines[i].kind = "row"
          /\ file.lines[i].nums =
               <<FmtG(df[i].t_index), Fmt12G(call.fact * df[i][call.fieldname])>>

\* a scaled write of two rows that are not in ascending time order
C6_Witness ==
  /\ call.op = "write_BCs" /\ err = "ok" /\ call.fact = -1
  /\ Len(df) = 2 /\ df[1].t_index > df[2].t_index

\* C7: in write_ICs and write_timeheight a requested field that is no column
\* of the dataset is no error: the call succeeds (its other preconditions
\* holding), writes 0 for that field and the dataset's values for the others;
\* write_ICs writes one line per row of the start-of-window snapshot.
C7_AbsentFieldIsZero ==
  /\ (call.op = "write_ICs" /\ Snapshot(df, datefrom) # <<>>
        /\ NoNaN(Snapshot(df, datefrom)))
       => LET snap == Snapshot(df, datefrom)
              Val(r, f) == IF f \in DataColumns THEN r[f] ELSE 0
          IN  /\ err = "ok"
              /\ Len(file.lines) = Len(snap)
              /\ \A i \in 1..Len(snap) :
                    file.lines[i].nums =
                      <<FmtG(snap[i].height), Fmt12G(Val(snap[i], call.xmom)),
                        Fmt12G(Val(snap[i], call.ymom)), Fmt12G(Val(snap[i], call.temp))>>
  /\ (call.op = "write_timeheight" /\ Cardinality(GivenMom) \in {0, 3}
        /\ FullGrid(df) /\ NoNaN(df))
       => /\ err = "ok"
          /\ \A tb \in Tables :
                \A i \in 1..Len(BlockRows(file.lines, tb[1])) :
                   LET line == BlockRows(file.lines, tb[1])[i].nums
                   IN  \A k \in 2..Len(line) :
                          IF tb[3] \in DataColumns
                          THEN \E r \in Range(df) : Fmt12G(r[tb[3]]) = line[k]
                          ELSE line[k] = 0

C9_SnapshotNonEmpty ==
  pc = "ready" => Snapshot(df, datefrom) # <<>>

\* C9 amended: after every successful construction in which datefrom was
\* defaulted, or was given as the time label of a row of the dataset, some
\* bound row is labelled datefrom.
C9_SnapshotNonEmptyAtLabel ==
  (call.op = "__init__" /\ pc = "ready"
     /\ (call.datefrom = NoDate \/ call.datefrom \in TimesOf(call.df)))
    => Snapshot(df, datefrom) # <<>>

\* a construction with datefrom defaulted whose window holds a later row too
C9_Witness ==
  /\ call.op = "__init__" /\ pc = "ready" /\ call.datefrom = NoDate
  /\ Snapshot(df, datefrom) # <<>>
  /\ Len(Snapshot(df, datefrom)) < Len(df)

\* C10: in every table block, the value in the row that starts with t and in
\* value column k is the field's value at (the time with t_index t, the k-th
\* height of the block's height list), numbers being read as printed.
C10_TableAligned ==
  (call.op = "write_timeheight" /\ err = "ok") =>
    \A tb \in Tables :
       LET rs == BlockRows(file.lines, tb[1])
           hs == BlockRows(file.lines, tb[2])
       IN  \A i \in 1..Len(rs) : \A k \in 1..Len(hs) :
              \E r \in Range(df) :
                 /\ FmtG(r.t_index) = rs[i].nums[1]
                 /\ FmtG(r.height) = hs[k].nums[1]
                 /\ Fmt12G(r[tb[3]]) = rs[i].nums[k + 1]

====
